---- MODULE Spec2Model ----
(***************************************************************************)
(* Model of data-processing/scripts/data_cleaning.py: text normalisation,  *)
(* year extraction, paragraph chunking, record emission and the JSONL      *)
(* driver.                                                                 *)
(*                                                                         *)
(* A Python str is modelled as a sequence of characters, each character a  *)
(* one-character TLA+ string.  Characters outside ASCII are written by     *)
(* their code point: "U2022" is the bullet, "U2013" the en dash, and so on.*)
(***************************************************************************)
EXTENDS Integers, Sequences, FiniteSets, TLC

VARIABLES
    text,        \* argument of normalize_whitespace / extract_years
    out,         \* values returned so far by the function under check
    paras,       \* chunk_paragraphs: argument paras
    max_chars,   \* chunk_paragraphs / yield_chunks / process_jsonl: max_chars
    i,           \* chunk_paragraphs: loop index (0-based, as in the code)
    cur,         \* chunk_paragraphs: current chunk (list of units)
    cur_len,     \* chunk_paragraphs: running length of cur
    chunks,      \* chunk_paragraphs: closed chunks
    blocks,      \* per unit of chunks \o <<cur>>: the stripped paragraphs it holds
    cpc,         \* chunk_paragraphs: "loop" | "returned"
    raw_item,    \* yield_chunks: argument raw_item
    gen,         \* yield_chunks: generator frame (refs, paragraph_chunks, next idx)
    emitted,     \* yield_chunks: records yielded so far
    lines,       \* process_jsonl: the input file, a sequence of lines
    ln,          \* process_jsonl: number of lines consumed from fin
    total_in,    \* process_jsonl: total_in
    total_out,   \* process_jsonl: total_out
    fout,        \* process_jsonl: lines written to the output file
    report,      \* process_jsonl: the printed summary, or the empty sequence
    dpc          \* process_jsonl: "read" | "write" | "done" | "raised"

vars == <<text, out, paras, max_chars, i, cur, cur_len, chunks, blocks, cpc,
          raw_item, gen, emitted, lines, ln, total_in, total_out, fout, report, dpc>>

strVars   == <<text, out>>
chunkVars == <<paras, i, cur, cur_len, chunks, blocks, cpc>>
genVars   == <<raw_item, gen, emitted>>
drvVars   == <<lines, ln, total_in, total_out, fout, report, dpc>>

(***************************************************************************)
(* Characters and character classes                                        *)
(***************************************************************************)
NL == "\n"
CR == "\r"
TAB == "\t"
SP == " "
HYPHEN == "-"

\* the characters str.strip() removes and the regex class \s matches
Whitespace == {SP, TAB, NL, CR}

Digits == {"0", "1", "2", "3", "4", "5", "6", "7", "8", "9"}

\* the regex class \w, restricted to the characters the model uses
WordChars == Digits \cup {"a", "b", "c", "x", "_"}

\* BULLETS (the middle dot U00B7 occurs twice in the tuple)
BULLETS == {"U2022", "U25E6", "U25AA", "U2023", "U00B7", "U25CF", "*", "U2013", "U2014", "-"}

(***************************************************************************)
(* Generic string helpers (Python str methods)                             *)
(***************************************************************************)
Min(S) == CHOOSE m \in S : \A n \in S : m <= n

\* first index >= pos whose character is outside set S, Len(s)+1 if none
RunEnd(s, pos, S) ==
    Min({k \in pos..(Len(s) + 1) : k = Len(s) + 1 \/ s[k] \notin S})

\* last index <= pos whose character is outside set S, 0 if none
RunStart(s, pos, S) ==
    LET C == {k \in 0..pos : k = 0 \/ s[k] \notin S}
    IN CHOOSE m \in C : \A n \in C : n <= m

\* str.strip()
Strip(s) ==
    LET a == RunEnd(s, 1, Whitespace)
        b == RunStart(s, Len(s), Whitespace)
    IN IF a > b THEN <<>> ELSE SubSeq(s, a, b)

\* str.split(c) for a one-character separator c
RECURSIVE SplitFrom(_, _, _)
SplitFrom(s, c, pos) ==
    LET e == RunEnd(s, pos, {x \in {s[k] : k \in 1..Len(s)} : x # c})
    IN IF e > Len(s) THEN <<SubSeq(s, pos, Len(s))>>
       ELSE <<SubSeq(s, pos, e - 1)>> \o SplitFrom(s, c, e + 1)

Split(s, c) == SplitFrom(s, c, 1)

\* sep.join(parts)
RECURSIVE Join(_, _)
Join(parts, sep) ==
    IF parts = <<>> THEN <<>>
    ELSE IF Len(parts) = 1 THEN parts[1]
    ELSE parts[1] \o sep \o Join(Tail(parts), sep)

\* str.replace(c, d) for one-character c and d
ReplaceChar(s, c, d) == [k \in 1..Len(s) |-> IF s[k] = c THEN d ELSE s[k]]

\* re.sub(r"[S]{n,}", rep, s): every maximal run of at least n characters of S
\* is replaced by rep
RECURSIVE CollapseRuns(_, _, _, _, _)
CollapseRuns(s, pos, S, n, rep) ==
    IF pos > Len(s) THEN <<>>
    ELSE IF s[pos] \in S
         THEN LET e == RunEnd(s, pos, S)
              IN (IF e - pos >= n THEN rep ELSE SubSeq(s, pos, e - 1))
                 \o CollapseRuns(s, e, S, n, rep)
         ELSE <<s[pos]>> \o CollapseRuns(s, pos + 1, S, n, rep)

(***************************************************************************)
(* normalize_whitespace                                                    *)
(***************************************************************************)
\* step 1: re.sub(r"(\w)-\s*\n\s*(\w)", r"\1\2", s).  A match at pos is a word
\* character, a hyphen, a whitespace run holding a newline, a word character;
\* the scan resumes after the match (matches do not overlap).
DehyphenEnd(s, pos) ==
    IF pos + 3 > Len(s) \/ s[pos] \notin WordChars \/ s[pos + 1] # HYPHEN THEN 0
    ELSE LET m == RunEnd(s, pos + 2, Whitespace)
         IN IF m <= Len(s) /\ s[m] \in WordChars
               /\ \E k \in (pos + 2)..(m - 1) : s[k] = NL
            THEN m ELSE 0

RECURSIVE Dehyphenate(_, _)
Dehyphenate(s, pos) ==
    IF pos > Len(s) THEN <<>>
    ELSE LET m == DehyphenEnd(s, pos)
         IN IF m > 0 THEN <<s[pos], s[m]>> \o Dehyphenate(s, m + 1)
            ELSE <<s[pos]>> \o Dehyphenate(s, pos + 1)

\* step 2: s.replace("\r\n", "\n").replace("\r", "\n")
RECURSIVE DropCrBeforeNl(_, _)
DropCrBeforeNl(s, pos) ==
    IF pos > Len(s) THEN <<>>
    ELSE IF s[pos] = CR /\ pos < Len(s) /\ s[pos + 1] = NL
         THEN <<NL>> \o DropCrBeforeNl(s, pos + 2)
         ELSE <<s[pos]>> \o DropCrBeforeNl(s, pos + 1)

NormalizeLineEndings(s) == ReplaceChar(DropCrBeforeNl(s, 1), CR, NL)

\* a variant of UnifyBullet whose pattern lacks the trailing \s*
UnifyBullet_KeepsSpace(line) ==
    LET l == Strip(line)
    IN IF l # <<>> /\ l[1] \in BULLETS
       THEN <<HYPHEN, SP>> \o SubSeq(l, RunEnd(l, 1, BULLETS), Len(l))
       ELSE l

\* step 5, one line: strip it; if it starts with a bullet glyph, remove the
\* leading glyphs and the whitespace after them and prefix "- "
UnifyBullet(line) ==
    LET l == Strip(line)
    IN IF l # <<>> /\ l[1] \in BULLETS
       THEN LET e == RunEnd(l, RunEnd(l, 1, BULLETS), Whitespace)
            IN <<HYPHEN, SP>> \o SubSeq(l, e, Len(l))
       ELSE l

UnifyBullets(s) ==
    LET ls == Split(s, NL)
    IN Join([k \in 1..Len(ls) |-> UnifyBullet(ls[k])], <<NL>>)

\* step 6: quotes, dashes and the remaining bullet glyph
UnifyPunctChar(c) ==
    CASE c = "U2019" -> "'"
      [] c = "U201C" -> "\""
      [] c = "U201D" -> "\""
      [] c = "U2013" -> HYPHEN
      [] c = "U2014" -> HYPHEN
      [] c = "U2022" -> HYPHEN
      [] OTHER -> c

UnifyPunct(s) == [k \in 1..Len(s) |-> UnifyPunctChar(s[k])]

normalize_whitespace(s) ==
    IF s = <<>> THEN <<>>
    ELSE LET s1 == Dehyphenate(s, 1)
             s2 == NormalizeLineEndings(s1)
             s3 == CollapseRuns(s2, 1, {NL}, 3, <<NL, NL>>)
             s4 == CollapseRuns(s3, 1, {SP, TAB}, 2, <<SP>>)
             s5 == UnifyBullets(s4)
             s6 == UnifyPunct(s5)
         IN Strip(s6)

(***************************************************************************)
(* extract_years                                                           *)
(***************************************************************************)
DigitVal(c) ==
    CASE c = "0" -> 0 [] c = "1" -> 1 [] c = "2" -> 2 [] c = "3" -> 3 [] c = "4" -> 4
      [] c = "5" -> 5 [] c = "6" -> 6 [] c = "7" -> 7 [] c = "8" -> 8 [] c = "9" -> 9

\* int() of a string of decimal digits
RECURSIVE IntOf(_)
IntOf(s) ==
    IF s = <<>> THEN 0
    ELSE 10 * IntOf(SubSeq(s, 1, Len(s) - 1)) + DigitVal(s[Len(s)])

\* ((19|20)\d{2}) matches at q
YearDigitsAt(s, q) ==
    /\ q + 3 <= Len(s)
    /\ \/ s[q] = "1" /\ s[q + 1] = "9"
       \/ s[q] = "2" /\ s[q + 1] = "0"
    /\ s[q + 2] \in Digits
    /\ s[q + 3] \in Digits

\* where the group of a match of [\[\(]?((19|20)\d{2})[\]\)]? starting at pos
\* begins, 0 when the pattern does not match at pos
YearGroupAt(s, pos) ==
    IF pos <= Len(s) /\ s[pos] \in {"[", "("} /\ YearDigitsAt(s, pos + 1) THEN pos + 1
    ELSE IF YearDigitsAt(s, pos) THEN pos
    ELSE 0

\* the years of re.finditer from pos on: leftmost non-overlapping matches
RECURSIVE YearMatches(_, _)
YearMatches(s, pos) ==
    IF pos > Len(s) THEN {}
    ELSE LET q == YearGroupAt(s, pos)
         IN IF q = 0 THEN YearMatches(s, pos + 1)
            ELSE LET e == IF q + 4 <= Len(s) /\ s[q + 4] \in {"]", ")"} THEN q + 5 ELSE q + 4
                 IN {IntOf(SubSeq(s, q, q + 3))} \cup YearMatches(s, e)

\* sorted(set)
RECURSIVE SortedSeq(_)
SortedSeq(S) ==
    IF S = {} THEN <<>>
    ELSE LET m == Min(S) IN <<m>> \o SortedSeq(S \ {m})

InYearRange(y) == 1900 <= y /\ y <= 2100

extract_years(s) ==
    IF s = <<>> THEN <<>>
    ELSE SortedSeq({y \in YearMatches(s, 1) : InYearRange(y)})

(***************************************************************************)
(* chunk_paragraphs                                                        *)
(***************************************************************************)
\* is_bullet(p): p.strip().startswith("- ")
is_bullet(p) ==
    LET q == Strip(p)
    IN Len(q) >= 2 /\ q[1] = HYPHEN /\ q[2] = SP

\* a variant of BulletRunEnd that absorbs no following bullet paragraph
BulletRunEnd_NoAbsorb(ps, j0) == j0

\* the loop "while j < n and is_bullet(paras[j])": the first 0-based j >= j0
\* that is n or names a paragraph that is no bullet
BulletRunEnd(ps, j0) ==
    Min({j \in j0..Len(ps) : j = Len(ps) \/ ~is_bullet(ps[j + 1])})

\* bullet_block for the bullet paragraph at 0-based index i0
BulletBlock(ps, i0) ==
    LET j == BulletRunEnd(ps, i0 + 1)
    IN [k \in 1..(j - i0) |-> Strip(ps[i0 + k])]

\* the frame of the function: locals chunks, cur, cur_len, i; blocks records,
\* for every unit appended so far, the paragraphs it was built from
ChunkStart == [i |-> 0, cur |-> <<>>, cur_len |-> 0, chunks |-> <<>>, blocks |-> <<>>]

\* variants of MustClose: the joining character is not counted; the
\* comparison is >= instead of >
MustClose_NoJoinChar(st, unit, max) == st.cur_len + Len(unit) > max /\ st.cur # <<>>
MustClose_OffByOne(st, unit, max) == st.cur_len + Len(unit) + 1 >= max /\ st.cur # <<>>

\* "if cur_len + len(unit) + 1 > max_chars and cur"
MustClose(st, unit, max) == st.cur_len + Len(unit) + 1 > max /\ st.cur # <<>>

\* a variant of Place that forgets to append the chunk it closes
Place_DropsClosed(st, unit, from, nexti, max) ==
    LET close == st.cur_len + Len(unit) + 1 > max /\ st.cur # <<>>
    IN [i       |-> nexti,
        cur     |-> (IF close THEN <<>> ELSE st.cur) \o <<unit>>,
        cur_len |-> (IF close THEN 0 ELSE st.cur_len) + Len(unit) + 1,
        chunks  |-> st.chunks,
        blocks  |-> Append(st.blocks, from)]

\* close cur if the unit does not fit, append the unit, move i to nexti
Place(st, unit, from, nexti, max) ==
    LET close == MustClose(st, unit, max)
    IN [i       |-> nexti,
        cur     |-> (IF close THEN <<>> ELSE st.cur) \o <<unit>>,
        cur_len |-> (IF close THEN 0 ELSE st.cur_len) + Len(unit) + 1,
        chunks  |-> IF close THEN Append(st.chunks, st.cur) ELSE st.chunks,
        blocks  |-> Append(st.blocks, from)]

\* one iteration of "while i < n"
ChunkStep(ps, st, max) ==
    LET p == Strip(ps[st.i + 1])
    IN IF p = <<>> THEN [st EXCEPT !.i = st.i + 1]
       ELSE IF is_bullet(p)
            THEN LET bullet_block == BulletBlock(ps, st.i)
                 IN Place(st, Join(bullet_block, <<NL>>), bullet_block,
                          st.i + Len(bullet_block), max)
            ELSE Place(st, p, <<p>>, st.i + 1, max)

\* a variant of ChunkResult without the test "if cur"
ChunkResult_AlwaysAppend(st) == Append(st.chunks, st.cur)

\* "if cur: chunks.append(cur)" and the returned list
ChunkResult(st) == IF st.cur # <<>> THEN Append(st.chunks, st.cur) ELSE st.chunks

RECURSIVE ChunkLoop(_, _, _)
ChunkLoop(ps, st, max) ==
    IF st.i < Len(ps) THEN ChunkLoop(ps, ChunkStep(ps, st, max), max) ELSE st

chunk_paragraphs(ps, max) == ChunkResult(ChunkLoop(ps, ChunkStart, max))

(***************************************************************************)
(* yield_chunks                                                            *)
(*                                                                         *)
(* A raw item is a record of the keys that decide what yield_chunks emits  *)
(* and whether it raises: text, content, refs, references, section_path    *)
(* and section.  Each holds a JSON value [kind, n, s, items]; an absent key *)
(* holds JNone, which is what dict.get returns for it.                     *)
(*   JNone       null / absent                                             *)
(*   JInt(n)     the integer n                                             *)
(*   JFloat(n)   the float n.0                                             *)
(*   JStr(s)     the string s                                              *)
(*   JList(l)    the list l of JSON values                                 *)
(* JSON true/false and objects as values are outside the model's inputs,   *)
(* and so are strings that UTF-8 cannot encode (lone surrogates).  The      *)
(* keys side_label(s), page, page_start, page_end and pageIndex are not    *)
(* modelled: make_breadcrumb applies str() to every element, safe_list and *)
(* the page "or" chains are total, so on these inputs they neither raise   *)
(* nor change text, refs, section or the number of records.                *)
(***************************************************************************)
JNone == [kind |-> "none", n |-> 0, s |-> <<>>, items |-> <<>>]
JInt(n) == [kind |-> "int", n |-> n, s |-> <<>>, items |-> <<>>]
JStr(s) == [kind |-> "str", n |-> 0, s |-> s, items |-> <<>>]
JFloat(n) == [kind |-> "float", n |-> n, s |-> <<>>, items |-> <<>>]
JList(items) == [kind |-> "list", n |-> 0, s |-> <<>>, items |-> items]

\* Python truth value, as the "or" chains read it
Truthy(v) ==
    CASE v.kind = "none" -> FALSE
      [] v.kind = "int" -> v.n # 0
      [] v.kind = "float" -> v.n # 0
      [] v.kind = "str" -> v.s # <<>>
      [] v.kind = "list" -> v.items # <<>>

\* a or b
Or(a, b) == IF Truthy(a) THEN a ELSE b

\* safe_list(x)
safe_list(x) ==
    IF x.kind = "none" THEN <<>>
    ELSE IF x.kind = "list" THEN x.items
    ELSE <<x>>

\* str.isdigit(), for the ASCII characters of the model
IsDigitStr(s) == s # <<>> /\ \A k \in 1..Len(s) : s[k] \in Digits

\* lines 147-155: the years one entry of the refs list adds
RefYears(r) ==
    IF r.kind = "int" THEN {r.n}
    ELSE IF r.kind = "str" /\ IsDigitStr(r.s)
         THEN LET y == IntOf(r.s) IN IF InYearRange(y) THEN {y} ELSE {}
    ELSE {}

\* lines 145-156
RefsOf(txt, refs_field) ==
    LET rs == safe_list(refs_field)
    IN SortedSeq({extract_years(txt)[k] : k \in 1..Len(extract_years(txt))}
                 \cup UNION {RefYears(rs[k]) : k \in 1..Len(rs)})

\* re.split(r"\n\s*\n", s): the separator starting at newline p ends at the
\* last newline of the whitespace run that follows p; 0 when p starts none
SeparatorEnd(s, p) ==
    IF s[p] # NL THEN 0
    ELSE LET e == RunEnd(s, p + 1, Whitespace)
             C == {k \in (p + 1)..(e - 1) : s[k] = NL}
         IN IF C = {} THEN 0 ELSE CHOOSE m \in C : \A k \in C : k <= m

RECURSIVE SplitBlankLines(_, _, _)
SplitBlankLines(s, from, pos) ==
    IF pos > Len(s) THEN <<SubSeq(s, from, Len(s))>>
    ELSE LET q == SeparatorEnd(s, pos)
         IN IF q = 0 THEN SplitBlankLines(s, from, pos + 1)
            ELSE <<SubSeq(s, from, pos - 1)>> \o SplitBlankLines(s, q + 1, q + 1)

NotBlank(p) == Strip(p) # <<>>

\* line 162
Paragraphs(txt) == SelectSeq(SplitBlankLines(txt, 1, 1), NotBlank)

\* line 166: "\n\n".join(paras).strip()
CleanText(chunk) == Strip(Join(chunk, <<NL, NL>>))

\* line 134: raw_item.get("text") or raw_item.get("content") or ""
TextRaw(item) == Or(Or(item.text, item.content), JStr(<<>>))

\* line 137: raw_item.get("section_path") or raw_item.get("section") or []
SectionPath(item) == Or(Or(item.section_path, item.section), JList(<<>>))

\* line 135: re.sub raises TypeError when text_raw is truthy and no string
TextRaises(item) == TextRaw(item).kind # "str"

\* line 159: " > ".join raises TypeError when the section path is a list with
\* an element that is no string
SectionRaises(item) ==
    LET sp == SectionPath(item)
    IN sp.kind = "list" /\ \E k \in 1..Len(sp.items) : sp.items[k].kind # "str"

\* the first next() of yield_chunks(item) raises
Raises(item) == TextRaises(item) \/ SectionRaises(item)

\* line 159: section_str, a JSON value (the joined path, or the scalar itself)
SectionStr(sp) ==
    IF sp.kind = "list"
    THEN JStr(Join([k \in 1..Len(sp.items) |-> sp.items[k].s], <<SP, ">", SP>>))
    ELSE sp

\* the frame of a generator that has not been started
GenIdle == [pc |-> "idle", text |-> <<>>, refs |-> <<>>, section |-> JNone,
            paragraph_chunks |-> <<>>, idx |-> 0]

\* the frame of a generator that an exception has left
GenRaised == [GenIdle EXCEPT !.pc = "raised"]

\* lines 134-163: the generator's frame when it reaches the for loop
GenFrame(item, max) ==
    IF Raises(item) THEN GenRaised
    ELSE LET txt == normalize_whitespace(TextRaw(item).s)
         IN [pc               |-> "loop",
             text             |-> txt,
             refs             |-> RefsOf(txt, Or(Or(item.refs, item.references), JList(<<>>))),
             section          |-> SectionStr(SectionPath(item)),
             paragraph_chunks |-> chunk_paragraphs(Paragraphs(txt), max),
             idx              |-> 0]

\* an item with every key absent
NoItem == [text |-> JNone, content |-> JNone, refs |-> JNone, references |-> JNone,
           section_path |-> JNone, section |-> JNone]

\* lines 165-187: the record yielded for paragraph_chunks[idx]; the field idx
\* stands for the id, which is derived from the breadcrumb, idx and text[:120]
ChunkRecord(g) ==
    LET clean_text == CleanText(g.paragraph_chunks[g.idx + 1])
    IN [idx              |-> g.idx,
        section          |-> g.section,
        refs             |-> g.refs,
        text             |-> clean_text,
        highlighted_text |-> clean_text]

(***************************************************************************)
(* Bounds of the model and the input sets drawn from them                  *)
(***************************************************************************)
MaxLen == 4          \* longest text given to normalize_whitespace
MaxYearLen == 6      \* longest text given to extract_years

Strings(A, n) == UNION {[1..k -> A] : k \in 0..n}

NormAlphabet == {"a", HYPHEN, SP, NL, CR, TAB, "U2022", "U2013", "U2019"}
YearAlphabet == {"1", "2", "0", "9", "[", ")"}

NoChunker ==
    /\ paras = <<>> /\ i = 0 /\ cur = <<>> /\ cur_len = 0 /\ chunks = <<>>
    /\ blocks = <<>> /\ cpc = "idle"
NoGenerator == raw_item = NoItem /\ gen = GenIdle /\ emitted = <<>>
NoDriver ==
    /\ lines = <<>> /\ ln = 0 /\ total_in = 0 /\ total_out = 0 /\ fout = <<>>
    /\ report = <<>> /\ dpc = "idle"

(***************************************************************************)
(* SpecNorm: normalize_whitespace applied to a text, then to its own output*)
(***************************************************************************)
NormInit ==
    /\ text \in Strings(NormAlphabet, MaxLen)
    /\ out = <<>>
    /\ max_chars = 0
    /\ NoChunker /\ NoGenerator /\ NoDriver

Normalize ==
    /\ Len(out) = 0
    /\ out' = <<normalize_whitespace(text)>>
    /\ UNCHANGED <<text, max_chars, chunkVars, genVars, drvVars>>

NormalizeAgain ==
    /\ Len(out) = 1
    /\ out' = Append(out, normalize_whitespace(out[1]))
    /\ UNCHANGED <<text, max_chars, chunkVars, genVars, drvVars>>

NormNext == Normalize \/ NormalizeAgain

SpecNorm == NormInit /\ [][NormNext]_vars

(***************************************************************************)
(* SpecYears: extract_years applied to a text                              *)
(***************************************************************************)
YearsInit ==
    /\ text \in Strings(YearAlphabet, MaxYearLen)
    /\ out = <<>>
    /\ max_chars = 0
    /\ NoChunker /\ NoGenerator /\ NoDriver

ExtractYears ==
    /\ Len(out) = 0
    /\ out' = <<extract_years(text)>>
    /\ UNCHANGED <<text, max_chars, chunkVars, genVars, drvVars>>

YearsNext == ExtractYears

SpecYears == YearsInit /\ [][YearsNext]_vars

(***************************************************************************)
(* SpecChunk: chunk_paragraphs run one loop iteration at a time            *)
(***************************************************************************)
MaxParas == 3        \* longest list of paragraphs given to chunk_paragraphs
MaxChars == 8        \* largest max_chars given to chunk_paragraphs

ParaSet == {
    <<>>,
    <<SP>>,
    <<"a">>,
    <<"a", "b", "c">>,
    <<"a", "b", "c", "x">>,
    <<HYPHEN, SP, "a">>,
    <<SP, HYPHEN, SP, "b", SP>>,
    <<HYPHEN, "a">> }

Frame == [i |-> i, cur |-> cur, cur_len |-> cur_len, chunks |-> chunks, blocks |-> blocks]

SetFrame(st) ==
    /\ i' = st.i
    /\ cur' = st.cur
    /\ cur_len' = st.cur_len
    /\ chunks' = st.chunks
    /\ blocks' = st.blocks

ChunkInit ==
    /\ paras \in UNION {[1..k -> ParaSet] : k \in 0..MaxParas}
    /\ max_chars \in 0..MaxChars
    /\ i = 0 /\ cur = <<>> /\ cur_len = 0 /\ chunks = <<>> /\ blocks = <<>>
    /\ cpc = "loop"
    /\ text = <<>> /\ out = <<>>
    /\ NoGenerator /\ NoDriver

\* lines 96-99: an empty paragraph is skipped
SkipEmpty ==
    /\ cpc = "loop" /\ i < Len(paras)
    /\ Strip(paras[i + 1]) = <<>>
    /\ SetFrame(ChunkStep(paras, Frame, max_chars))
    /\ UNCHANGED <<paras, max_chars, cpc, strVars, genVars, drvVars>>

\* lines 102-115: a run of bullet paragraphs is placed as one unit
PlaceBulletBlock ==
    /\ cpc = "loop" /\ i < Len(paras)
    /\ Strip(paras[i + 1]) # <<>>
    /\ is_bullet(paras[i + 1])
    /\ SetFrame(ChunkStep(paras, Frame, max_chars))
    /\ UNCHANGED <<paras, max_chars, cpc, strVars, genVars, drvVars>>

\* lines 118-123: an ordinary paragraph is placed
PlaceParagraph ==
    /\ cpc = "loop" /\ i < Len(paras)
    /\ Strip(paras[i + 1]) # <<>>
    /\ ~is_bullet(paras[i + 1])
    /\ SetFrame(ChunkStep(paras, Frame, max_chars))
    /\ UNCHANGED <<paras, max_chars, cpc, strVars, genVars, drvVars>>

\* lines 125-128: the last chunk is closed and chunks returned
ChunkReturn ==
    /\ cpc = "loop" /\ i >= Len(paras)
    /\ chunks' = ChunkResult(Frame)
    /\ cur' = <<>>
    /\ cpc' = "returned"
    /\ UNCHANGED <<paras, max_chars, i, cur_len, blocks, strVars, genVars, drvVars>>

ChunkNext == SkipEmpty \/ PlaceBulletBlock \/ PlaceParagraph \/ ChunkReturn

SpecChunk == ChunkInit /\ [][ChunkNext]_vars

(***************************************************************************)
(* SpecYield: one call of yield_chunks, consumed record by record          *)
(***************************************************************************)
MaxTextLen == 5      \* longest text of a raw item built from single characters
MaxRefs == 2         \* longest refs list of a raw item
DefaultMaxChars == 1000

YieldAlphabet == {"a", HYPHEN, SP, NL, "U2022"}
YieldMaxChars == {1, 3, DefaultMaxChars}

RefEntries == {JInt(5), JInt(2019), JInt(0), JStr(<<"1", "9", "9", "9">>),
               JStr(<<"1", "8", "5", "0">>), JStr(<<"2", "0", "a">>), JFloat(0), JFloat(2019)}
RefFields == {JNone} \cup RefEntries
             \cup {JList(l) : l \in UNION {[1..k -> RefEntries] : k \in 0..MaxRefs}}

YearTexts == {JNone, JStr(<<"2", "0", "1", "9">>),
              JStr(<<"1", "9", "9", "9", SP, "2", "0", "1", "9", NL, NL, "[", "2", "0", "0", "1", "]">>)}

\* values of text and content, some of them no strings
TextValues == {JNone, JStr(<<>>), JStr(<<"a">>), JInt(0), JInt(5), JFloat(0), JFloat(5),
               JList(<<>>), JList(<<JStr(<<"a">>)>>)}

\* values of section_path and section
SectionValues == {JNone, JStr(<<"s">>), JInt(5), JList(<<>>),
                  JList(<<JStr(<<"s">>), JStr(<<"t">>)>>),
                  JList(<<JInt(1), JInt(2)>>),
                  JList(<<JStr(<<"s">>), JNone>>)}

YieldInit ==
    /\ \/ raw_item \in [text : {JStr(s) : s \in Strings(YieldAlphabet, MaxTextLen)},
                        content : {JNone},
                        refs : {JNone, JList(<<JStr(<<"2", "0", "1", "9">>)>>)},
                        references : {JNone},
                        section_path : {JNone}, section : {JNone}]
       \/ raw_item \in [text : YearTexts,
                        content : {JNone, JStr(<<"a", SP, "2", "0", "2", "0">>)},
                        refs : RefFields,
                        references : {JNone, JList(<<JStr(<<"2", "0", "0", "1">>)>>)},
                        section_path : {JNone}, section : {JNone}]
       \/ raw_item \in [text : TextValues,
                        content : {JNone, JStr(<<"b">>), JInt(7)},
                        refs : {JNone}, references : {JNone},
                        section_path : SectionValues, section : SectionValues]
    /\ max_chars \in YieldMaxChars
    /\ gen = GenIdle
    /\ emitted = <<>>
    /\ text = <<>> /\ out = <<>>
    /\ NoChunker /\ NoDriver

\* the first next(): lines 134-163 run up to the for loop
GenStart ==
    /\ gen.pc = "idle"
    /\ ~Raises(raw_item)
    /\ gen' = GenFrame(raw_item, max_chars)
    /\ UNCHANGED <<raw_item, emitted, max_chars, strVars, chunkVars, drvVars>>

\* the first next(): line 135 or line 159 raises TypeError, nothing is yielded
GenRaise ==
    /\ gen.pc = "idle"
    /\ Raises(raw_item)
    /\ gen' = GenFrame(raw_item, max_chars)
    /\ UNCHANGED <<raw_item, emitted, max_chars, strVars, chunkVars, drvVars>>

\* lines 165-187: one record is yielded
GenYield ==
    /\ gen.pc = "loop"
    /\ gen.idx < Len(gen.paragraph_chunks)
    /\ emitted' = Append(emitted, ChunkRecord(gen))
    /\ gen' = [gen EXCEPT !.idx = gen.idx + 1]
    /\ UNCHANGED <<raw_item, max_chars, strVars, chunkVars, drvVars>>

\* the for loop ends and the generator returns
GenReturn ==
    /\ gen.pc = "loop"
    /\ gen.idx >= Len(gen.paragraph_chunks)
    /\ gen' = [gen EXCEPT !.pc = "returned"]
    /\ UNCHANGED <<raw_item, emitted, max_chars, strVars, chunkVars, drvVars>>

YieldNext == GenStart \/ GenRaise \/ GenYield \/ GenReturn

SpecYield == YieldInit /\ [][YieldNext]_vars

(***************************************************************************)
(* SpecDriver: process_jsonl                                               *)
(*                                                                         *)
(* A line of the input file is one of                                      *)
(*   blank      empty after strip()                                        *)
(*   malformed  json.loads raises                                          *)
(*   object     json.loads returns the dict item; yield_chunks may raise   *)
(*              TypeError on it, which is not caught either                *)
(*   nonobject  json.loads returns a value without .get (a number, a list):*)
(*              yield_chunks raises AttributeError, which is not caught    *)
(***************************************************************************)
MaxLines == 3        \* longest input file, in lines

DrvItems == {
    [NoItem EXCEPT !.text = JStr(<<SP>>)],
    [NoItem EXCEPT !.text = JStr(<<"a">>), !.refs = JInt(5)],
    [NoItem EXCEPT !.text = JFloat(0), !.content = JStr(<<"a">>), !.refs = JFloat(0),
                   !.references = JList(<<JStr(<<"2", "0", "0", "1">>)>>),
                   !.section = JList(<<JStr(<<"s">>), JStr(<<"t">>)>>)],
    [NoItem EXCEPT !.text = JStr(<<"a", "b", NL, NL, "U2022", "c", NL, NL, "b">>)],
    [NoItem EXCEPT !.text = JInt(5)],
    [NoItem EXCEPT !.text = JStr(<<"a">>), !.section = JList(<<JInt(1), JInt(2)>>)] }

LineSet == {[kind |-> k, item |-> NoItem] : k \in {"blank", "malformed", "nonobject"}}
           \cup {[kind |-> "object", item |-> it] : it \in DrvItems}

DriverInit ==
    /\ lines \in UNION {[1..k -> LineSet] : k \in 0..MaxLines}
    /\ max_chars \in YieldMaxChars
    /\ ln = 0 /\ total_in = 0 /\ total_out = 0 /\ fout = <<>> /\ report = <<>>
    /\ dpc = "read"
    /\ text = <<>> /\ out = <<>>
    /\ NoChunker /\ NoGenerator

\* lines 194-196: a blank line is skipped
ReadBlank ==
    /\ dpc = "read" /\ ln < Len(lines)
    /\ lines[ln + 1].kind = "blank"
    /\ ln' = ln + 1
    /\ UNCHANGED <<lines, total_in, total_out, fout, report, dpc, max_chars,
                   strVars, chunkVars, genVars>>

\* lines 197-202: total_in is incremented, json.loads raises, the line is skipped
ReadMalformed ==
    /\ dpc = "read" /\ ln < Len(lines)
    /\ lines[ln + 1].kind = "malformed"
    /\ ln' = ln + 1
    /\ total_in' = total_in + 1
    /\ UNCHANGED <<lines, total_out, fout, report, dpc, max_chars,
                   strVars, chunkVars, genVars>>

\* lines 197-203: total_in is incremented, the line parses, yield_chunks starts
ReadObject ==
    /\ dpc = "read" /\ ln < Len(lines)
    /\ lines[ln + 1].kind = "object"
    /\ ~Raises(lines[ln + 1].item)
    /\ ln' = ln + 1
    /\ total_in' = total_in + 1
    /\ raw_item' = lines[ln + 1].item
    /\ gen' = GenFrame(lines[ln + 1].item, max_chars)
    /\ dpc' = "write"
    /\ UNCHANGED <<lines, total_out, fout, report, emitted, max_chars, strVars, chunkVars>>

\* lines 197-203: the line parses to a dict on which yield_chunks raises
\* TypeError (line 135 or 159) before its first yield; the exception leaves
\* process_jsonl
ReadObjectRaises ==
    /\ dpc = "read" /\ ln < Len(lines)
    /\ lines[ln + 1].kind = "object"
    /\ Raises(lines[ln + 1].item)
    /\ ln' = ln + 1
    /\ total_in' = total_in + 1
    /\ dpc' = "raised"
    /\ UNCHANGED <<lines, total_out, fout, report, max_chars, strVars, chunkVars, genVars>>

\* lines 197-203: the line parses to a value without .get; the exception of
\* line 134 leaves process_jsonl
ReadNonObject ==
    /\ dpc = "read" /\ ln < Len(lines)
    /\ lines[ln + 1].kind = "nonobject"
    /\ ln' = ln + 1
    /\ total_in' = total_in + 1
    /\ dpc' = "raised"
    /\ UNCHANGED <<lines, total_out, fout, report, max_chars, strVars, chunkVars, genVars>>

\* a variant of WriteChunk that does not count the record it writes
WriteChunk_NoCount ==
    /\ dpc = "write"
    /\ gen.idx < Len(gen.paragraph_chunks)
    /\ fout' = Append(fout, [src |-> ln, rec |-> ChunkRecord(gen)])
    /\ gen' = [gen EXCEPT !.idx = gen.idx + 1]
    /\ UNCHANGED <<lines, ln, total_in, total_out, report, dpc, raw_item, emitted, max_chars,
                   strVars, chunkVars>>

\* lines 203-205: the next record is written; src is the line it comes from
WriteChunk ==
    /\ dpc = "write"
    /\ gen.idx < Len(gen.paragraph_chunks)
    /\ fout' = Append(fout, [src |-> ln, rec |-> ChunkRecord(gen)])
    /\ total_out' = total_out + 1
    /\ gen' = [gen EXCEPT !.idx = gen.idx + 1]
    /\ UNCHANGED <<lines, ln, total_in, report, dpc, raw_item, emitted, max_chars,
                   strVars, chunkVars>>

\* line 203: the generator is exhausted, the next line is read
ChunksExhausted ==
    /\ dpc = "write"
    /\ gen.idx >= Len(gen.paragraph_chunks)
    /\ gen' = GenIdle
    /\ raw_item' = NoItem
    /\ dpc' = "read"
    /\ UNCHANGED <<lines, ln, total_in, total_out, fout, report, emitted, max_chars,
                   strVars, chunkVars>>

\* line 206: end of file, the summary is printed
PrintSummary ==
    /\ dpc = "read" /\ ln >= Len(lines)
    /\ report' = <<[read_items |-> total_in, wrote_chunks |-> total_out]>>
    /\ dpc' = "done"
    /\ UNCHANGED <<lines, ln, total_in, total_out, fout, max_chars,
                   strVars, chunkVars, genVars>>

DriverNext ==
    \/ ReadBlank \/ ReadMalformed \/ ReadObject \/ ReadObjectRaises \/ ReadNonObject
    \/ WriteChunk \/ ChunksExhausted \/ PrintSummary

SpecDriver == DriverInit /\ [][DriverNext]_vars

(***************************************************************************)
(* Properties                                                              *)
(***************************************************************************)
RECURSIVE Flatten(_)
Flatten(ss) == IF ss = <<>> THEN <<>> ELSE Head(ss) \o Flatten(Tail(ss))

\* total character count of a chunk: unit length plus one joining character
RECURSIVE Total(_)
Total(chunk) == IF chunk = <<>> THEN 0 ELSE Len(Head(chunk)) + 1 + Total(Tail(chunk))

StrictlyAscending(q) == \A a, b \in 1..Len(q) : a < b => q[a] < q[b]

Returned == cpc = "returned"

\* the units of the returned chunks, in chunk order
Units == Flatten(chunks)

\* paragraphs a..b (1-based) form a maximal run of adjacent bullet paragraphs
MaximalBulletRun(a, b) ==
    /\ a <= b
    /\ \A k \in a..b : is_bullet(paras[k])
    /\ a = 1 \/ ~is_bullet(paras[a - 1])
    /\ b = Len(paras) \/ ~is_bullet(paras[b + 1])

StrippedRun(a, b) == [k \in 1..(b - a + 1) |-> Strip(paras[a + k - 1])]

\* C2: when chunk_paragraphs returns, every maximal run of adjacent bullet
\* paragraphs is one unit of the result: some unit is built from exactly the
\* paragraphs of the run and is their stripped texts joined by newlines,
\* whatever the run's length is compared with max_chars.
C2_BulletRunIsOneUnit ==
    Returned =>
        \A a, b \in 1..Len(paras) :
            MaximalBulletRun(a, b) =>
                \E m \in 1..Len(Units) :
                    /\ blocks[m] = StrippedRun(a, b)
                    /\ Units[m] = Join(StrippedRun(a, b), <<NL>>)

\* C2 witness: a run of at least two bullet paragraphs, longer than max_chars,
\* was returned as a single unit beside another chunk.
C2_Witness ==
    /\ Returned
    /\ Len(chunks) >= 2
    /\ \E a, b \in 1..Len(paras) :
        /\ a < b
        /\ MaximalBulletRun(a, b)
        /\ Len(Join(StrippedRun(a, b), <<NL>>)) + 1 > max_chars
        /\ \E m \in 1..Len(Units) : Units[m] = Join(StrippedRun(a, b), <<NL>>)

\* C3 as stated: every returned chunk has a total (unit length plus one per
\* unit) of at most max_chars, except chunks of exactly one unit whose own
\* length exceeds max_chars.
C3_AsStated ==
    Returned =>
        \A k \in 1..Len(chunks) :
            \/ Total(chunks[k]) <= max_chars
            \/ Len(chunks[k]) = 1 /\ Len(chunks[k][1]) > max_chars

\* C3 amended: every returned chunk has a total (unit length plus one per
\* unit) of at most max_chars, except chunks of exactly one unit whose length
\* plus one joining character exceeds max_chars (length >= max_chars).
C3_TotalWithinBudget ==
    Returned =>
        \A k \in 1..Len(chunks) :
            \/ Total(chunks[k]) <= max_chars
            \/ Len(chunks[k]) = 1 /\ Len(chunks[k][1]) + 1 > max_chars

\* C3 witness: the result holds a chunk packed from several units within the
\* budget and a chunk of one unit exactly max_chars long.
C3_Witness ==
    /\ Returned
    /\ \E k \in 1..Len(chunks) : Len(chunks[k]) >= 2 /\ Total(chunks[k]) <= max_chars
    /\ \E k \in 1..Len(chunks) : Len(chunks[k]) = 1 /\ Len(chunks[k][1]) = max_chars

\* C5: when chunk_paragraphs returns, the paragraphs the units were built from,
\* taken in chunk order, are exactly the stripped non-blank input paragraphs in
\* input order, each once, and every unit is its paragraphs joined by newlines
\* (an ordinary paragraph is a unit on its own).
C5_OrderPreservedNothingLost ==
    Returned =>
        /\ Flatten(blocks) = SelectSeq([k \in 1..Len(paras) |-> Strip(paras[k])], NotBlank)
        /\ Len(Units) = Len(blocks)
        /\ \A m \in 1..Len(Units) :
            /\ Units[m] = Join(blocks[m], <<NL>>)
            /\ Len(blocks[m]) > 1 => \A k \in 1..Len(blocks[m]) : is_bullet(blocks[m][k])

\* C5 witness: three or more non-blank paragraphs, among them a bullet run
\* and an ordinary paragraph, were returned in at least two chunks.
C5_Witness ==
    /\ Returned
    /\ Len(paras) >= 3
    /\ \A k \in 1..Len(paras) : NotBlank(paras[k])
    /\ Len(chunks) >= 2
    /\ \E m \in 1..Len(blocks) : Len(blocks[m]) >= 2
    /\ \E m \in 1..Len(blocks) : ~is_bullet(blocks[m][1])

\* for any two consecutive returned chunks, the earlier chunk's total plus the
\* later chunk's first unit plus one exceeds max_chars
GreedyBoundaries ==
    \A k \in 1..(Len(chunks) - 1) :
        Total(chunks[k]) + Len(chunks[k + 1][1]) + 1 > max_chars

\* C10 as stated: consecutive returned chunks could not have been merged at
\* their boundary, and whenever the sum over all units of length plus one is
\* at most max_chars exactly one chunk is returned.
C10_AsStated ==
    Returned =>
        /\ GreedyBoundaries
        /\ Total(Units) <= max_chars => Len(chunks) = 1

\* a step of the loop that closes a chunk does so before placing a unit (the
\* first unit of the new current chunk) that did not fit: the chunk being
\* closed is the non-empty current chunk, and its running length plus the
\* unit's length plus one exceeds max_chars
ClosesOnlyOnOverflow ==
    (cpc' = "loop" /\ Len(chunks') > Len(chunks)) =>
        /\ cur # <<>>
        /\ chunks' = Append(chunks, cur)
        /\ cur_len + Len(cur'[1]) + 1 > max_chars

\* C10 amended: a chunk is closed before a unit only when the current chunk
\* is non-empty and adding the unit (length plus one) would push the running
\* length over max_chars; consecutive returned chunks could not have been
\* merged at their boundary; and whenever there is at least one unit and the
\* sum over all units of length plus one is at most max_chars exactly one
\* chunk is returned, while with no unit at all no chunk is returned.
C10_GreedyPacking ==
    /\ [][ClosesOnlyOnOverflow]_vars
    /\ [](Returned =>
            /\ GreedyBoundaries
            /\ (Units # <<>> /\ Total(Units) <= max_chars) => Len(chunks) = 1
            /\ (\A k \in 1..Len(paras) : ~NotBlank(paras[k])) => chunks = <<>>)

\* C10 witness: three units were packed into two chunks, the first of them
\* holding two units.
C10_Witness ==
    /\ Returned
    /\ Len(chunks) = 2
    /\ Len(chunks[1]) = 2
    /\ Total(chunks[1]) <= max_chars

\* the input lines json.loads parses
Parsed(k) == lines[k].kind \in {"object", "nonobject"}

\* C1 as stated: when process_jsonl completes, no written record comes from a
\* malformed line, every line was consumed, and the reported read_items is the
\* number of non-blank lines that parsed successfully.
C1_MalformedLinesNotCounted ==
    dpc = "done" =>
        /\ \A a \in 1..Len(fout) : lines[fout[a].src].kind # "malformed"
        /\ ln = Len(lines)
        /\ report[1].read_items = Cardinality({k \in 1..Len(lines) : Parsed(k)})

\* the record yield_chunks derives from item at chunk index idx
RecordOf(item, idx) == ChunkRecord([GenFrame(item, max_chars) EXCEPT !.idx = idx])

\* C6: at every point of process_jsonl, the records written so far are ordered
\* by input line and, within a line, by chunk index, the indices of one line
\* being 0, 1, 2, ... without gaps; each written record is the record
\* yield_chunks derives from its line at its index; total_out is the number of
\* lines written, and so is the reported wrote_chunks.
C6_OutputOrder ==
    /\ \A a, b \in 1..Len(fout) :
        a < b => \/ fout[a].src < fout[b].src
                 \/ fout[a].src = fout[b].src /\ fout[a].rec.idx < fout[b].rec.idx
    /\ \A a \in 1..Len(fout) :
        /\ fout[a].rec.idx = Cardinality({b \in 1..(a - 1) : fout[b].src = fout[a].src})
        /\ lines[fout[a].src].kind = "object"
        /\ fout[a].rec = RecordOf(lines[fout[a].src].item, fout[a].rec.idx)
    /\ total_out = Len(fout)
    /\ dpc = "done" => report[1].wrote_chunks = Len(fout)

\* C6 witness: the run completed after writing records of two different lines,
\* one of which produced several records.
C6_Witness ==
    /\ dpc = "done"
    /\ \E a, b \in 1..Len(fout) : fout[a].src < fout[b].src
    /\ \E a \in 1..Len(fout) : fout[a].rec.idx >= 1
    /\ \E k \in 1..Len(lines) : lines[k].kind = "malformed"

\* C4 as stated: the refs of every record yield_chunks emits are strictly
\* ascending (hence duplicate-free) and every element is a year in 1900..2100.
C4_RefsAreYears ==
    \A k \in 1..Len(emitted) :
        /\ StrictlyAscending(emitted[k].refs)
        /\ \A m \in 1..Len(emitted[k].refs) : InYearRange(emitted[k].refs[m])

\* C7: every record yield_chunks emits has a text that is non-empty after
\* trimming; chunk_paragraphs returned no empty chunk; and an item whose
\* normalized text is empty or whitespace-only emits no record at all.
C7_TextNonEmpty ==
    /\ \A k \in 1..Len(emitted) : Strip(emitted[k].text) # <<>>
    /\ \A k \in 1..Len(gen.paragraph_chunks) : gen.paragraph_chunks[k] # <<>>
    /\ (gen.pc # "idle" /\ Strip(gen.text) = <<>>) =>
           (gen.paragraph_chunks = <<>> /\ emitted = <<>>)

\* C7 witness: a call of yield_chunks returned after emitting two or more
\* records.
C7_Witness ==
    /\ gen.pc = "returned"
    /\ Len(emitted) >= 2

\* the maximal runs of digits of s, as pairs <<first, last>>
DigitRuns(s) ==
    {r \in (1..Len(s)) \X (1..Len(s)) :
        /\ r[1] <= r[2]
        /\ \A k \in r[1]..r[2] : s[k] \in Digits
        /\ r[1] = 1 \/ s[r[1] - 1] \notin Digits
        /\ r[2] = Len(s) \/ s[r[2] + 1] \notin Digits}

\* the years of the tokens of exactly 4 digits with a value in 1900..2100
FourDigitYears(s) ==
    {y \in {IntOf(SubSeq(s, r[1], r[2])) : r \in {q \in DigitRuns(s) : q[2] - q[1] = 3}} :
        1900 <= y /\ y <= 2100}

\* C8 as stated: extract_years returns exactly the ascending duplicate-free
\* sequence of the values of all tokens of exactly 4 digits whose value lies in
\* 1900..2100 (2100 included); longer or shorter digit runs and values outside
\* the range contribute nothing.
C8_ExactlyFourDigitTokens ==
    Len(out) = 1 => out[1] = SortedSeq(FourDigitYears(text))

\* the characters steps 2 and 6 of normalize_whitespace rewrite
RewrittenChars == {CR, "U2019", "U201C", "U201D", "U2013", "U2014", "U2022"}

\* the maximal whitespace runs strictly inside s, as pairs <<first, last>>
InnerWhitespaceRuns(s) ==
    {r \in (2..(Len(s) - 1)) \X (2..(Len(s) - 1)) :
        /\ r[1] <= r[2]
        /\ \A k \in r[1]..r[2] : s[k] \in Whitespace
        /\ s[r[1] - 1] \notin Whitespace
        /\ s[r[2] + 1] \notin Whitespace}

\* a line is regular when it does not start with a bullet glyph, or starts
\* with the standard "- " prefix, or is a lone hyphen ending the text
RegularLine(ls, k) ==
    \/ ls[k] = <<>>
    \/ ls[k][1] \notin BULLETS
    \/ Len(ls[k]) >= 2 /\ ls[k][1] = HYPHEN /\ ls[k][2] = SP
    \/ ls[k] = <<HYPHEN>> /\ k = Len(ls)

\* already-clean text: apart from leading and trailing whitespace, s holds no
\* hyphenated line-wrap, no carriage return, curly quote, en/em dash or
\* bullet glyph, no whitespace run other than one space, one tab, one newline
\* or two newlines, and no irregular bullet line
Clean(s) ==
    LET c == Strip(s)
        ls == Split(c, NL)
    IN /\ \A k \in 1..Len(c) : c[k] \notin RewrittenChars
       /\ \A k \in 1..Len(c) : DehyphenEnd(c, k) = 0
       /\ \A r \in InnerWhitespaceRuns(c) :
            SubSeq(c, r[1], r[2]) \in {<<SP>>, <<TAB>>, <<NL>>, <<NL, NL>>}
       /\ \A k \in 1..Len(ls) : RegularLine(ls, k)

\* C9 as stated: normalize_whitespace returns already-clean text unchanged up
\* to trimming, and is idempotent on its own output for every text s.
C9_AsStated ==
    /\ (Len(out) >= 1 /\ Clean(text)) => out[1] = Strip(text)
    /\ Len(out) = 2 => out[2] = out[1]

\* C9 amended: normalize_whitespace returns already-clean text unchanged up to
\* trimming, and on already-clean text a second normalization changes nothing.
C9_CleanTextUnchanged ==
    /\ (Len(out) >= 1 /\ Clean(text)) => out[1] = Strip(text)
    /\ (Len(out) = 2 /\ Clean(text)) => out[2] = out[1]

\* C9 witness: an already-clean text with surrounding whitespace and a bullet
\* line was normalized twice.
C9_Witness ==
    /\ Len(out) = 2
    /\ Clean(text)
    /\ Strip(text) # text
    /\ Len(Strip(text)) >= 3
    /\ Strip(text)[1] = HYPHEN

====
